---- MODULE Spec2Model ----
(***************************************************************************)
(* Model of the Statcast feature pipeline of mlb-predict-project:          *)
(*   src/src/features/calculate_stats.py     (StatcastFeatureCalculator,   *)
(*                                            calculate_player_features)   *)
(*   src/src/data_collection/fetch_statcast.py (fetch_player_statcast,     *)
(*                          fetch_all_players_from_timeline,               *)
(*                          load_player_statcast)                          *)
(*                                                                         *)
(* A pitch table (pandas DataFrame) is a sequence of rows plus the set of  *)
(* columns it carries.  A row is a record with one field per column; a     *)
(* missing value is NaN (numeric columns) or None (string columns).  The   *)
(* value of a field whose column is not in the table is never read.        *)
(* Metric values are exact fractions <<numerator, denominator>>; a value   *)
(* with denominator 0 is numpy's nan (0/0) or inf.                         *)
(***************************************************************************)
EXTENDS Integers, Sequences, FiniteSets, TLC

VARIABLES
    data,          \* the caller's pitch table: its rows, in arrival order
    columns,       \* the optional columns the caller's table carries
    pc,            \* "feed" | "constructed" | "calculated" | "stored" | "returned"
    pitch_data,    \* self.pitch_data  (sorted copy of data)
    pas,           \* self.pas         (one row per plate appearance)
    events,        \* self.events      (pas['events'].dropna())
    batted_balls,  \* self.batted_balls (pas rows with launch_speed)
    features,      \* the dict returned by calculate_all_features
    store,         \* data_dir: player id -> NoFile or the table in its file
    result,        \* the last call of calculate_player_features: its argument
                   \* player_id, whether it raised or returned None, the dict
    timeline,      \* the rows of the timeline CSV
    driver,        \* the running batch function (calculate_all_players_features
                   \* or fetch_all_players_from_timeline): its position and locals
    fetches        \* the calls of fetch_player_statcast so far, oldest first

vars == <<data, columns, pc, pitch_data, pas, events, batted_balls, features,
          store, result, timeline, driver, fetches>>

\* the state of the batch functions and of the fetch layer
batch_vars == <<timeline, driver, fetches>>

\* the state of one calculator and of its caller
calculator_vars ==
    <<data, columns, pc, pitch_data, pas, events, batted_balls, features, result>>

----------------------------------------------------------------------------
(* Bounds of the model *)

MaxPitches == 3

MaxDropped == 1

MaxTimeline == 3

MaxCalls == 3

----------------------------------------------------------------------------
(* Missing values *)

\* numeric NaN: a marker outside the range of every numeric column
NaN == -9999

\* missing value of a string (object) column
None == "None"

\* notna on a numeric column
notna(v) == v # NaN

\* notna on a string column
notnull(v) == v # None

\* comparisons with NaN are False in pandas/numpy
ge(v, c) == v # NaN /\ v >= c

le(v, c) == v # NaN /\ v <= c

----------------------------------------------------------------------------
(* Exact fractions, standing for the floats the code computes *)

Abs(n) == IF n < 0 THEN 0 - n ELSE n

RECURSIVE Gcd(_, _)
Gcd(a, b) == IF b = 0 THEN a ELSE Gcd(b, a % b)

\* the fraction n/d in lowest terms with d > 0
Frac(n, d) ==
    LET s == IF d < 0 THEN 0 - 1 ELSE 1
        g == Gcd(Abs(n), Abs(d))
    IN  <<(s * n) \div g, (s * d) \div g>>

\* the integer literal 0 / 100 as returned by a guarded metric
Whole(n) == <<n, 1>>

nan == <<0, 0>>

inf == <<1, 0>>

isfinite(x) == x[2] # 0

\* numpy scalar true division x / y of two integers: 0/0 is nan (with a
\* RuntimeWarning), n/0 is inf; it does not raise
TrueDiv(n, d) ==
    IF d = 0 THEN (IF n = 0 THEN nan ELSE inf) ELSE Frac(n, d)

RatAdd(x, y) ==
    IF ~isfinite(x) \/ ~isfinite(y) THEN nan
    ELSE Frac(x[1] * y[2] + y[1] * x[2], x[2] * y[2])

RatSub(x, y) ==
    IF ~isfinite(x) \/ ~isfinite(y) THEN nan
    ELSE Frac(x[1] * y[2] - y[1] * x[2], x[2] * y[2])

RatMul(x, y) ==
    IF ~isfinite(x) \/ ~isfinite(y) THEN nan
    ELSE Frac(x[1] * y[1], x[2] * y[2])

RatDiv(x, y) ==
    IF ~isfinite(x) \/ ~isfinite(y) THEN nan
    ELSE TrueDiv(x[1] * y[2], x[2] * y[1])

\* x <= y on finite fractions; False when either side is nan
RatLe(x, y) == isfinite(x) /\ isfinite(y) /\ x[1] * y[2] <= y[1] * x[2]

\* Python's max(0, x): x if x > 0 else 0 (nan > 0 is False, so max(0, nan) = 0)
Max0(x) == IF isfinite(x) /\ x[1] > 0 THEN x ELSE Whole(0)

----------------------------------------------------------------------------
(* Sequences *)

\* mask.sum() / len(df[mask])
Count(s, Test(_)) == Len(SelectSeq(s, Test))

RECURSIVE Sum(_)
Sum(s) == IF s = <<>> THEN 0 ELSE Head(s) + Sum(Tail(s))

\* Series.dropna() on a numeric column, as the sequence of kept values
RECURSIVE DropNa(_)
DropNa(s) ==
    IF s = <<>> THEN <<>>
    ELSE IF notna(Head(s)) THEN <<Head(s)>> \o DropNa(Tail(s))
         ELSE DropNa(Tail(s))

\* Series.sum(): skips NaN, 0 for an empty or all-NaN column
SeriesSum(s) == Sum(DropNa(s))

\* Series.mean(): skips NaN, nan for an empty or all-NaN column
SeriesMean(s) ==
    LET v == DropNa(s) IN IF v = <<>> THEN nan ELSE Frac(Sum(v), Len(v))

RECURSIVE MaxOf(_)
MaxOf(s) ==
    IF Len(s) = 1 THEN Head(s)
    ELSE LET m == MaxOf(Tail(s)) IN IF Head(s) >= m THEN Head(s) ELSE m

\* Series.max(): skips NaN, nan for an empty or all-NaN column
SeriesMax(s) ==
    LET v == DropNa(s) IN IF v = <<>> THEN nan ELSE Whole(MaxOf(v))

\* the column `c` of a table as a sequence
Col(rows, c) == [i \in 1..Len(rows) |-> rows[i][c]]

----------------------------------------------------------------------------
(* The pitch table *)

\* columns the calculator reads unconditionally (a table without one of them
\* is rejected with a KeyError by __init__ or by the metric that reads it)
RequiredColumns ==
    {"game_date", "inning", "at_bat_number", "events", "launch_speed",
     "launch_angle"}

\* columns the calculator tests with `in df.columns` before reading
OptionalColumns ==
    {"description", "zone", "bb_type", "launch_speed_angle", "hc_x", "stand",
     "estimated_woba_using_speedangle", "woba_value", "woba_denom"}

AllColumns == RequiredColumns \cup OptionalColumns

StringColumns == {"events", "description", "bb_type", "stand"}

\* the missing value of column c
NullOf(c) == IF c \in StringColumns THEN None ELSE NaN

\* a pitch with nothing recorded but its sequencing keys
BlankPitch(d, inn, ab) ==
    [c \in AllColumns |->
        CASE c = "game_date"     -> d
          [] c = "inning"        -> inn
          [] c = "at_bat_number" -> ab
          [] OTHER               -> NullOf(c)]

\* row r with the fields of the record `over` replaced
With(r, over) ==
    [c \in AllColumns |-> IF c \in DOMAIN over THEN over[c] ELSE r[c]]

----------------------------------------------------------------------------
(* __init__: sort_values and groupby(...).last() *)

\* lexicographic order of the sort key (game_date, inning, at_bat_number)
SortKeyLe(a, b) ==
    \/ a.game_date < b.game_date
    \/ /\ a.game_date = b.game_date
       /\ \/ a.inning < b.inning
          \/ /\ a.inning = b.inning
             /\ a.at_bat_number <= b.at_bat_number

RECURSIVE InsertSorted(_, _)
\* r placed after every row of the sorted sequence s whose key is <= its own
InsertSorted(s, r) ==
    IF s = <<>> THEN <<r>>
    ELSE IF SortKeyLe(s[Len(s)], r) THEN Append(s, r)
         ELSE Append(InsertSorted(SubSeq(s, 1, Len(s) - 1), r), s[Len(s)])

RECURSIVE sort_values(_)
\* DataFrame.sort_values on several columns: a stable lexicographic sort
sort_values(rows) ==
    IF rows = <<>> THEN <<>>
    ELSE InsertSorted(sort_values(SubSeq(rows, 1, Len(rows) - 1)),
                      rows[Len(rows)])

\* GroupKey for a groupby on at_bat_number alone
GroupKey_at_bat_only(r) == <<1, r.at_bat_number>>

\* the grouping key of a row
GroupKey(r) == <<r.game_date, r.at_bat_number>>

GroupKeyLt(k, l) == k[1] < l[1] \/ (k[1] = l[1] /\ k[2] < l[2])

RECURSIVE SortedKeys(_)
\* groupby(sort=True): the group keys in ascending order
SortedKeys(ks) ==
    IF ks = {} THEN <<>>
    ELSE LET m == CHOOSE k \in ks : \A l \in ks \ {k} : GroupKeyLt(k, l)
         IN  <<m>> \o SortedKeys(ks \ {m})

RECURSIVE LastValid(_, _)
\* GroupBy.last() on one column: the last value of the group that is not
\* missing, and the missing value when the group has none
LastValid(vals, null) ==
    IF vals = <<>> THEN null
    ELSE IF vals[Len(vals)] # null THEN vals[Len(vals)]
         ELSE LastValid(SubSeq(vals, 1, Len(vals) - 1), null)

\* groupby(['game_date', 'at_bat_number']).last().reset_index()
groupby_last(rows) ==
    LET keys == SortedKeys({GroupKey(rows[i]) : i \in 1..Len(rows)})
        Group(k) == SelectSeq(rows, LAMBDA r : GroupKey(r) = k)
    IN  [g \in 1..Len(keys) |->
            [c \in AllColumns |->
                CASE c = "game_date"     -> keys[g][1]
                  [] c = "at_bat_number" -> keys[g][2]
                  [] OTHER -> LastValid(Col(Group(keys[g]), c), NullOf(c))]]

\* the calculator object built by __init__(pitch_data)
Calculator(rows) ==
    LET sorted == sort_values(rows)
        pa     == groupby_last(sorted)
    IN  [pitch_data   |-> sorted,
         pas          |-> pa,
         events       |-> SelectSeq(Col(pa, "events"), notnull),
         batted_balls |-> SelectSeq(pa, LAMBDA r : notna(r.launch_speed))]

----------------------------------------------------------------------------
(* The 14 basic metrics.  `self` is the calculator, `cols` the optional     *)
(* columns of its table.  estimated_woba_using_speedangle and woba_value   *)
(* are carried in thousandths (900 is 0.900); woba_denom in units.         *)

_avg(self) ==
    LET hits    == Count(self.events,
                     LAMBDA e : e \in {"single", "double", "triple", "home_run"})
        non_ab  == {"walk", "hit_by_pitch", "sac_fly", "sac_bunt", "catcher_interf"}
        at_bats == Count(self.events, LAMBDA e : e \notin non_ab)
    IN  IF at_bats > 0 THEN TrueDiv(hits, at_bats) ELSE Whole(0)

_obp(self) ==
    LET hits  == Count(self.events,
                   LAMBDA e : e \in {"single", "double", "triple", "home_run"})
        walks == Count(self.events, LAMBDA e : e = "walk")
        hbp   == Count(self.events, LAMBDA e : e = "hit_by_pitch")
    IN  IF Len(self.events) > 0
        THEN TrueDiv(hits + walks + hbp, Len(self.events)) ELSE Whole(0)

_slg(self) ==
    LET singles     == Count(self.events, LAMBDA e : e = "single")
        doubles     == Count(self.events, LAMBDA e : e = "double")
        triples     == Count(self.events, LAMBDA e : e = "triple")
        home_runs   == Count(self.events, LAMBDA e : e = "home_run")
        total_bases == singles + 2 * doubles + 3 * triples + 4 * home_runs
        non_ab      == {"walk", "hit_by_pitch", "sac_fly", "sac_bunt", "catcher_interf"}
        at_bats     == Count(self.events, LAMBDA e : e \notin non_ab)
    IN  IF at_bats > 0 THEN TrueDiv(total_bases, at_bats) ELSE Whole(0)

\* _ops adding the batting average instead of the on-base percentage
_ops_avg_plus_slg(self) == RatAdd(_avg(self), _slg(self))

_ops(self) == RatAdd(_obp(self), _slg(self))

_iso(self) == RatSub(_slg(self), _avg(self))

_bb_rate(self) ==
    LET walks == Count(self.events, LAMBDA e : e = "walk")
    IN  IF Len(self.events) > 0 THEN TrueDiv(walks, Len(self.events)) ELSE Whole(0)

_k_rate(self) ==
    LET strikeouts == Count(self.events,
                        LAMBDA e : e \in {"strikeout", "strikeout_double_play"})
    IN  IF Len(self.events) > 0
        THEN TrueDiv(strikeouts, Len(self.events)) ELSE Whole(0)

\* _babip counting home runs among the hits
_babip_with_home_runs(self) ==
    LET hits == Count(self.events,
                  LAMBDA e : e \in {"single", "double", "triple", "home_run"})
        non_babip_events ==
            {"walk", "hit_by_pitch", "sac_fly", "sac_bunt", "catcher_interf",
             "strikeout", "strikeout_double_play", "home_run"}
        balls_in_play == Count(self.events, LAMBDA e : e \notin non_babip_events)
    IN  IF balls_in_play > 0 THEN TrueDiv(hits, balls_in_play) ELSE Whole(0)

_babip(self) ==
    LET hits == Count(self.events, LAMBDA e : e \in {"single", "double", "triple"})
        non_babip_events ==
            {"walk", "hit_by_pitch", "sac_fly", "sac_bunt", "catcher_interf",
             "strikeout", "strikeout_double_play", "home_run"}
        balls_in_play == Count(self.events, LAMBDA e : e \notin non_babip_events)
    IN  IF balls_in_play > 0 THEN TrueDiv(hits, balls_in_play) ELSE Whole(0)

_hr_fb(self, cols) ==
    IF "bb_type" \notin cols THEN Whole(0)
    ELSE LET fly_balls == Count(self.batted_balls,
                            LAMBDA r : r.bb_type \in {"fly_ball", "popup"})
             home_runs == Count(self.events, LAMBDA e : e = "home_run")
         IN  IF fly_balls > 0 THEN TrueDiv(home_runs, fly_balls) ELSE Whole(0)

_ld_rate(self, cols) ==
    IF "bb_type" \notin cols THEN Whole(0)
    ELSE LET line_drives == Count(self.batted_balls,
                              LAMBDA r : r.bb_type = "line_drive")
         IN  IF Len(self.batted_balls) > 0
             THEN TrueDiv(line_drives, Len(self.batted_balls)) ELSE Whole(0)

_gb_rate(self, cols) ==
    IF "bb_type" \notin cols THEN Whole(0)
    ELSE LET ground_balls == Count(self.batted_balls,
                               LAMBDA r : r.bb_type = "ground_ball")
         IN  IF Len(self.batted_balls) > 0
             THEN TrueDiv(ground_balls, Len(self.batted_balls)) ELSE Whole(0)

_fb_rate(self, cols) ==
    IF "bb_type" \notin cols THEN Whole(0)
    ELSE LET fly_balls == Count(self.batted_balls,
                            LAMBDA r : r.bb_type \in {"fly_ball", "popup"})
         IN  IF Len(self.batted_balls) > 0
             THEN TrueDiv(fly_balls, Len(self.batted_balls)) ELSE Whole(0)

\* a value carried in thousandths, as the float it stands for
Milli(x) == RatDiv(x, Whole(1000))

\* _xwoba averaging over every appearance, a missing value counting as 0
_xwoba_mean_over_all(self, cols) ==
    LET xwoba_values ==
            DropNa(Col(self.pas, "estimated_woba_using_speedangle"))
        total_value == SeriesSum(Col(self.pas, "woba_value"))
        total_denom == SeriesSum(Col(self.pas, "woba_denom"))
    IN  IF "estimated_woba_using_speedangle" \in cols /\ Len(xwoba_values) > 0
        THEN Milli(TrueDiv(Sum(xwoba_values), Len(self.pas)))
        ELSE IF /\ "woba_value" \in cols
                /\ "woba_denom" \in cols
                /\ total_denom > 0
             THEN Milli(TrueDiv(total_value, total_denom))
             ELSE Whole(0)

_xwoba(self, cols) ==
    LET xwoba_values ==
            DropNa(Col(self.pas, "estimated_woba_using_speedangle"))
        total_value == SeriesSum(Col(self.pas, "woba_value"))
        total_denom == SeriesSum(Col(self.pas, "woba_denom"))
    IN  IF "estimated_woba_using_speedangle" \in cols /\ Len(xwoba_values) > 0
        THEN Milli(SeriesMean(xwoba_values))
        ELSE IF /\ "woba_value" \in cols
                /\ "woba_denom" \in cols
                /\ total_denom > 0
             THEN Milli(TrueDiv(total_value, total_denom))
             ELSE Whole(0)

\* _xwrc_plus returning the formula's value without max(0, ...)
_xwrc_plus_unfloored(self, cols) ==
    LET xwoba       == _xwoba(self, cols)
        league_woba == Frac(320, 1000)
        woba_scale  == Frac(125, 100)
        xwrc_plus   ==
            RatAdd(RatMul(RatDiv(RatDiv(RatSub(xwoba, league_woba), woba_scale),
                                 league_woba),
                          Whole(100)),
                   Whole(100))
    IN  IF xwoba = Whole(0) THEN Whole(100) ELSE xwrc_plus

_xwrc_plus(self, cols) ==
    LET xwoba       == _xwoba(self, cols)
        league_woba == Frac(320, 1000)
        woba_scale  == Frac(125, 100)
        xwrc_plus   ==
            RatAdd(RatMul(RatDiv(RatDiv(RatSub(xwoba, league_woba), woba_scale),
                                 league_woba),
                          Whole(100)),
                   Whole(100))
    IN  IF xwoba = Whole(0) THEN Whole(100) ELSE Max0(xwrc_plus)

\* a dict literal {k1: v1, k2: v2, ...}: a later item replaces an earlier one
\* with the same key
Dict(items) ==
    [k \in {items[i][1] : i \in 1..Len(items)} |->
        items[CHOOSE i \in 1..Len(items) :
                 /\ items[i][1] = k
                 /\ \A j \in (i + 1)..Len(items) : items[j][1] # k][2]]

\* d.update(e)
update(d, e) ==
    [k \in DOMAIN d \cup DOMAIN e |-> IF k \in DOMAIN e THEN e[k] ELSE d[k]]

_basic_features(self, cols) ==
    Dict(<< <<"AVG",   _avg(self)>>,
            <<"OBP",   _obp(self)>>,
            <<"SLG",   _slg(self)>>,
            <<"OPS",   _ops(self)>>,
            <<"ISO",   _iso(self)>>,
            <<"BB%",   _bb_rate(self)>>,
            <<"K%",    _k_rate(self)>>,
            <<"BABIP", _babip(self)>>,
            <<"HR/FB", _hr_fb(self, cols)>>,
            <<"LD%",   _ld_rate(self, cols)>>,
            <<"GB%",   _gb_rate(self, cols)>>,
            <<"FB%",   _fb_rate(self, cols)>>,
            <<"xwOBA", _xwoba(self, cols)>>,
            <<"xwRC+", _xwrc_plus(self, cols)>> >>)

----------------------------------------------------------------------------
(* The 14 advanced metrics *)

_avg_exit_velo(self) ==
    IF Len(self.batted_balls) = 0 THEN Whole(0)
    ELSE SeriesMean(Col(self.batted_balls, "launch_speed"))

_max_exit_velo(self) ==
    IF Len(self.batted_balls) = 0 THEN Whole(0)
    ELSE SeriesMax(Col(self.batted_balls, "launch_speed"))

_avg_launch_angle(self) ==
    IF Len(self.batted_balls) = 0 THEN Whole(0)
    ELSE SeriesMean(Col(self.batted_balls, "launch_angle"))

_hard_hit_rate(self) ==
    IF Len(self.batted_balls) = 0 THEN Whole(0)
    ELSE LET hard_hit == Count(self.batted_balls,
                           LAMBDA r : ge(r.launch_speed, 95))
         IN  TrueDiv(hard_hit, Len(self.batted_balls))

\* _barrel_rate dividing by the number of batted balls
_barrel_rate_per_batted_ball(self, cols) ==
    IF Len(self.pas) = 0 THEN Whole(0)
    ELSE IF Len(self.batted_balls) = 0 THEN Whole(0)
    ELSE IF "launch_speed_angle" \in cols
    THEN LET barrels == Count(self.batted_balls,
                          LAMBDA r : r.launch_speed_angle = 6)
         IN  TrueDiv(barrels, Len(self.batted_balls))
    ELSE LET barrels == SelectSeq(self.batted_balls,
                          LAMBDA r : /\ ge(r.launch_speed, 98)
                                     /\ ge(r.launch_angle, 26)
                                     /\ le(r.launch_angle, 30))
         IN  TrueDiv(Len(barrels), Len(self.batted_balls))

_barrel_rate(self, cols) ==
    IF Len(self.pas) = 0 THEN Whole(0)
    ELSE IF "launch_speed_angle" \in cols
    THEN LET barrels == Count(self.batted_balls,
                          LAMBDA r : r.launch_speed_angle = 6)
         IN  TrueDiv(barrels, Len(self.pas))
    ELSE IF Len(self.batted_balls) = 0 THEN Whole(0)
    ELSE LET barrels == SelectSeq(self.batted_balls,
                          LAMBDA r : /\ ge(r.launch_speed, 98)
                                     /\ ge(r.launch_angle, 26)
                                     /\ le(r.launch_angle, 30))
         IN  TrueDiv(Len(barrels), Len(self.pas))

_sweet_spot_rate(self) ==
    IF Len(self.batted_balls) = 0 THEN Whole(0)
    ELSE LET sweet_spot == SelectSeq(self.batted_balls,
                             LAMBDA r : /\ ge(r.launch_angle, 8)
                                        /\ le(r.launch_angle, 32))
         IN  TrueDiv(Len(sweet_spot), Len(self.batted_balls))

\* _o_swing_rate reading the plate-appearance table instead of the pitches
_o_swing_rate_over_pas(self, cols) ==
    IF "zone" \notin cols \/ "description" \notin cols THEN Whole(0)
    ELSE LET outside_pitches ==
                 SelectSeq(self.pas, LAMBDA r : r.zone \in {11, 12, 13, 14})
             swings == Count(outside_pitches,
                         LAMBDA r : r.description \in
                             {"foul", "hit_into_play", "swinging_strike",
                              "swinging_strike_blocked", "foul_tip"})
         IN  IF Len(outside_pitches) = 0 THEN Whole(0)
             ELSE TrueDiv(swings, Len(outside_pitches))

_o_swing_rate(self, cols) ==
    IF "zone" \notin cols \/ "description" \notin cols THEN Whole(0)
    ELSE LET outside_pitches ==
                 SelectSeq(self.pitch_data, LAMBDA r : r.zone \in {11, 12, 13, 14})
             swings == Count(outside_pitches,
                         LAMBDA r : r.description \in
                             {"foul", "hit_into_play", "swinging_strike",
                              "swinging_strike_blocked", "foul_tip"})
         IN  IF Len(outside_pitches) = 0 THEN Whole(0)
             ELSE TrueDiv(swings, Len(outside_pitches))

_z_swing_rate(self, cols) ==
    IF "zone" \notin cols \/ "description" \notin cols THEN Whole(0)
    ELSE LET inside_pitches ==
                 SelectSeq(self.pitch_data, LAMBDA r : r.zone \in 1..9)
             swings == Count(inside_pitches,
                         LAMBDA r : r.description \in
                             {"foul", "hit_into_play", "swinging_strike",
                              "swinging_strike_blocked", "foul_tip"})
         IN  IF Len(inside_pitches) = 0 THEN Whole(0)
             ELSE TrueDiv(swings, Len(inside_pitches))

_swinging_strike_rate(self, cols) ==
    IF "description" \notin cols THEN Whole(0)
    ELSE LET whiffs == Count(self.pitch_data,
                         LAMBDA r : r.description \in
                             {"swinging_strike", "swinging_strike_blocked"})
         IN  TrueDiv(whiffs, Len(self.pitch_data))

_o_contact_rate(self, cols) ==
    IF "zone" \notin cols \/ "description" \notin cols THEN Whole(0)
    ELSE LET outside_swings ==
                 SelectSeq(self.pitch_data,
                     LAMBDA r : /\ r.zone \in {11, 12, 13, 14}
                                /\ r.description \in
                                     {"foul", "hit_into_play", "swinging_strike",
                                      "swinging_strike_blocked", "foul_tip"})
             contact == Count(outside_swings,
                          LAMBDA r : r.description \in
                              {"foul", "hit_into_play", "foul_tip"})
         IN  IF Len(outside_swings) = 0 THEN Whole(0)
             ELSE TrueDiv(contact, Len(outside_swings))

_z_contact_rate(self, cols) ==
    IF "zone" \notin cols \/ "description" \notin cols THEN Whole(0)
    ELSE LET inside_swings ==
                 SelectSeq(self.pitch_data,
                     LAMBDA r : /\ r.zone \in 1..9
                                /\ r.description \in
                                     {"foul", "hit_into_play", "swinging_strike",
                                      "swinging_strike_blocked", "foul_tip"})
             contact == Count(inside_swings,
                          LAMBDA r : r.description \in
                              {"foul", "hit_into_play", "foul_tip"})
         IN  IF Len(inside_swings) = 0 THEN Whole(0)
             ELSE TrueDiv(contact, Len(inside_swings))

\* _pull_rate dividing by the batted balls that have both hc_x and stand
_pull_rate_over_classified(self, cols) ==
    IF "hc_x" \notin cols \/ "stand" \notin cols THEN Whole(0)
    ELSE LET classified == SelectSeq(self.batted_balls,
                             LAMBDA r : notna(r.hc_x) /\ notnull(r.stand))
             pulled == Count(classified,
                         LAMBDA r : \/ (r.stand = "R" /\ r.hc_x < 125)
                                    \/ (r.stand = "L" /\ r.hc_x > 125))
         IN  IF Len(classified) = 0 THEN Whole(0)
             ELSE TrueDiv(pulled, Len(classified))

_pull_rate(self, cols) ==
    IF "hc_x" \notin cols \/ "stand" \notin cols THEN Whole(0)
    ELSE IF Len(self.batted_balls) = 0 THEN Whole(0)
    ELSE LET pulled == Count(self.batted_balls,
                         LAMBDA r : /\ notna(r.hc_x) /\ notnull(r.stand)
                                    /\ \/ (r.stand = "R" /\ r.hc_x < 125)
                                       \/ (r.stand = "L" /\ r.hc_x > 125))
         IN  TrueDiv(pulled, Len(self.batted_balls))

\* _center_rate with the column guard copied from _pull_rate
_center_rate_needs_stand(self, cols) ==
    IF "hc_x" \notin cols \/ "stand" \notin cols THEN Whole(0)
    ELSE IF Len(self.batted_balls) = 0 THEN Whole(0)
    ELSE LET center == SelectSeq(self.batted_balls,
                         LAMBDA r : ge(r.hc_x, 100) /\ le(r.hc_x, 150))
         IN  TrueDiv(Len(center), Len(self.batted_balls))

_center_rate(self, cols) ==
    IF "hc_x" \notin cols THEN Whole(0)
    ELSE IF Len(self.batted_balls) = 0 THEN Whole(0)
    ELSE LET center == SelectSeq(self.batted_balls,
                         LAMBDA r : ge(r.hc_x, 100) /\ le(r.hc_x, 150))
         IN  TrueDiv(Len(center), Len(self.batted_balls))

_oppo_rate(self, cols) ==
    IF "hc_x" \notin cols \/ "stand" \notin cols THEN Whole(0)
    ELSE IF Len(self.batted_balls) = 0 THEN Whole(0)
    ELSE LET oppo == Count(self.batted_balls,
                       LAMBDA r : /\ notna(r.hc_x) /\ notnull(r.stand)
                                  /\ \/ (r.stand = "R" /\ r.hc_x > 125)
                                     \/ (r.stand = "L" /\ r.hc_x < 125))
         IN  TrueDiv(oppo, Len(self.batted_balls))

\* _advanced_features with maxEV stored under the key of EV
_advanced_features_key_typo(self, cols) ==
    Dict(<< <<"Hard%",       _hard_hit_rate(self)>>,
            <<"EV",          _avg_exit_velo(self)>>,
            <<"EV",          _max_exit_velo(self)>>,
            <<"Barrel%",     _barrel_rate(self, cols)>>,
            <<"LA",          _avg_launch_angle(self)>>,
            <<"Sweet Spot%", _sweet_spot_rate(self)>>,
            <<"O-Swing%",    _o_swing_rate(self, cols)>>,
            <<"Z-Swing%",    _z_swing_rate(self, cols)>>,
            <<"SwStr%",      _swinging_strike_rate(self, cols)>>,
            <<"O-Contact%",  _o_contact_rate(self, cols)>>,
            <<"Z-Contact%",  _z_contact_rate(self, cols)>>,
            <<"Pull%",       _pull_rate(self, cols)>>,
            <<"Cent%",       _center_rate(self, cols)>>,
            <<"Oppo%",       _oppo_rate(self, cols)>> >>)

_advanced_features(self, cols) ==
    Dict(<< <<"Hard%",       _hard_hit_rate(self)>>,
            <<"EV",          _avg_exit_velo(self)>>,
            <<"maxEV",       _max_exit_velo(self)>>,
            <<"Barrel%",     _barrel_rate(self, cols)>>,
            <<"LA",          _avg_launch_angle(self)>>,
            <<"Sweet Spot%", _sweet_spot_rate(self)>>,
            <<"O-Swing%",    _o_swing_rate(self, cols)>>,
            <<"Z-Swing%",    _z_swing_rate(self, cols)>>,
            <<"SwStr%",      _swinging_strike_rate(self, cols)>>,
            <<"O-Contact%",  _o_contact_rate(self, cols)>>,
            <<"Z-Contact%",  _z_contact_rate(self, cols)>>,
            <<"Pull%",       _pull_rate(self, cols)>>,
            <<"Cent%",       _center_rate(self, cols)>>,
            <<"Oppo%",       _oppo_rate(self, cols)>> >>)

\* features = {}; features.update(basic); features.update(advanced)
calculate_all_features(self, cols) ==
    update(update(<<>>, _basic_features(self, cols)),
           _advanced_features(self, cols))

----------------------------------------------------------------------------
(* load_player_statcast and calculate_player_features *)

PlayerIds == {1, 2}

\* a path of data_dir at which there is no file.  A file is `readable` when
\* pd.read_parquet can read it back (a truncated or foreign file is not)
NoFile == [exists |-> FALSE, readable |-> FALSE, rows |-> <<>>, columns |-> {}]

\* the file to_parquet writes for a table
ParquetOf(rows, cols) ==
    [exists |-> TRUE, readable |-> TRUE, rows |-> rows, columns |-> cols]

\* the DataFrame read from player_<id>.parquet, or None when there is no
\* file; pd.read_parquet raises on a file it cannot read
load_player_statcast(player_id, data_dir) ==
    IF ~data_dir[player_id].exists
    THEN [raised |-> FALSE, none |-> TRUE, rows |-> <<>>, columns |-> {}]
    ELSE IF ~data_dir[player_id].readable
    THEN [raised |-> TRUE, none |-> FALSE, rows |-> <<>>, columns |-> {}]
    ELSE [raised |-> FALSE, none |-> FALSE, rows |-> data_dir[player_id].rows,
          columns |-> data_dir[player_id].columns]

\* calculate_player_features testing only `data is None`
calculate_player_features_none_only(player_id, data_dir) ==
    LET loaded == load_player_statcast(player_id, data_dir)
    IN  IF loaded.raised
        THEN [raised |-> TRUE, none |-> FALSE, features |-> <<>>]
        ELSE IF loaded.none
        THEN [raised |-> FALSE, none |-> TRUE, features |-> <<>>]
        ELSE LET calculator == Calculator(loaded.rows)
                 computed   == calculate_all_features(calculator, loaded.columns)
             IN  [raised |-> FALSE, none |-> FALSE,
                  features |->
                     update(computed,
                            Dict(<< <<"player_id",     player_id>>,
                                    <<"total_pitches", Len(loaded.rows)>>,
                                    <<"total_pas",     Len(calculator.pas)>> >>))]

\* the outcome of the call: an exception of load_player_statcast, None, or
\* the feature dict with its metadata
calculate_player_features(player_id, data_dir) ==
    LET loaded == load_player_statcast(player_id, data_dir)
    IN  IF loaded.raised
        THEN [raised |-> TRUE, none |-> FALSE, features |-> <<>>]
        ELSE IF loaded.none \/ Len(loaded.rows) = 0
        THEN [raised |-> FALSE, none |-> TRUE, features |-> <<>>]
        ELSE LET calculator == Calculator(loaded.rows)
                 computed   == calculate_all_features(calculator, loaded.columns)
             IN  [raised |-> FALSE, none |-> FALSE,
                  features |->
                     update(computed,
                            Dict(<< <<"player_id",     player_id>>,
                                    <<"total_pitches", Len(loaded.rows)>>,
                                    <<"total_pas",     Len(calculator.pas)>> >>))]

----------------------------------------------------------------------------
(* Sample pitches of the provider's feed *)

\* a 100 mph / 28 degree line-drive single by a right-handed batter
BarrelSingle ==
    With(BlankPitch(1, 1, 1),
         [events |-> "single", description |-> "hit_into_play", zone |-> 5,
          launch_speed |-> 100, launch_angle |-> 28, launch_speed_angle |-> 6,
          bb_type |-> "line_drive", hc_x |-> 110, stand |-> "R",
          estimated_woba_using_speedangle |-> 900,
          woba_value |-> 900, woba_denom |-> 1])

\* a swing and a miss outside the zone, not the last pitch of its appearance
ChaseWhiff ==
    With(BlankPitch(1, 1, 2),
         [description |-> "swinging_strike", zone |-> 12, stand |-> "R"])

\* the strikeout ending the appearance of ChaseWhiff
Strikeout ==
    With(BlankPitch(1, 1, 2),
         [events |-> "strikeout", description |-> "swinging_strike", zone |-> 3,
          stand |-> "R", woba_value |-> 0, woba_denom |-> 1])

\* a fly out whose launch angle was not tracked
UntrackedFlyOut ==
    With(BlankPitch(2, 1, 1),
         [events |-> "field_out", description |-> "hit_into_play", zone |-> 13,
          launch_speed |-> 90, bb_type |-> "fly_ball", hc_x |-> 140,
          stand |-> "L", woba_value |-> 0, woba_denom |-> 1])

\* a 105 mph / 27 degree home run with no launch_speed_angle bucket and no
\* expected wOBA
HomeRun ==
    With(BlankPitch(2, 2, 3),
         [events |-> "home_run", description |-> "hit_into_play", zone |-> 2,
          launch_speed |-> 105, launch_angle |-> 27, bb_type |-> "fly_ball",
          hc_x |-> 130, stand |-> "L", woba_value |-> 2000, woba_denom |-> 1])

SamplePitches ==
    {BarrelSingle, ChaseWhiff, Strikeout, UntrackedFlyOut, HomeRun}

----------------------------------------------------------------------------
(* The state machine *)

\* no batch function is running
Idle ==
    [fn |-> "none", pc |-> "idle", rows |-> <<>>, idx |-> 0, results |-> <<>>,
     skipped |-> <<>>, saved |-> FALSE]

\* the calculator object held in the state
Self ==
    [pitch_data |-> pitch_data, pas |-> pas, events |-> events,
     batted_balls |-> batted_balls]

Init ==
    /\ data = <<>>
    /\ columns = OptionalColumns
    /\ pc = "feed"
    /\ pitch_data = <<>>
    /\ pas = <<>>
    /\ events = <<>>
    /\ batted_balls = <<>>
    /\ features = <<>>
    /\ store = [p \in PlayerIds |-> NoFile]
    /\ result = [player_id |-> 0, raised |-> FALSE, none |-> TRUE,
                 features |-> <<>>]
    /\ timeline = <<>>
    /\ driver = Idle
    /\ fetches = <<>>

\* the provider delivers one more pitch row
Deliver(row) ==
    /\ pc = "feed"
    /\ Len(data) < MaxPitches
    /\ data' = Append(data, row)
    /\ UNCHANGED <<columns, pc, pitch_data, pas, events, batted_balls,
                   features, store, result>>
    /\ UNCHANGED batch_vars

RecordPitch == \E row \in SamplePitches : Deliver(row)

\* the provider's table comes without the optional column c
DropColumn ==
    \E c \in columns :
        /\ pc = "feed"
        /\ Cardinality(OptionalColumns \ columns) < MaxDropped
        /\ columns' = columns \ {c}
        /\ UNCHANGED <<data, pc, pitch_data, pas, events, batted_balls,
                       features, store, result>>
        /\ UNCHANGED batch_vars

\* Construct sorting the caller's table itself (no pitch_data.copy())
Construct_sorting_in_place ==
    /\ pc = "feed"
    /\ LET calculator == Calculator(data)
       IN  /\ data' = calculator.pitch_data
           /\ pitch_data' = calculator.pitch_data
           /\ pas' = calculator.pas
           /\ events' = calculator.events
           /\ batted_balls' = calculator.batted_balls
    /\ pc' = "constructed"
    /\ UNCHANGED <<columns, features, store, result>>
    /\ UNCHANGED batch_vars

\* calculator = StatcastFeatureCalculator(data)
Construct ==
    /\ pc = "feed"
    /\ LET calculator == Calculator(data)
       IN  /\ pitch_data' = calculator.pitch_data
           /\ pas' = calculator.pas
           /\ events' = calculator.events
           /\ batted_balls' = calculator.batted_balls
    /\ pc' = "constructed"
    /\ UNCHANGED <<data, columns, features, store, result>>
    /\ UNCHANGED batch_vars

\* features = calculator.calculate_all_features()
Calculate ==
    /\ pc \in {"constructed", "calculated"}
    /\ features' = calculate_all_features(Self, columns)
    /\ pc' = "calculated"
    /\ UNCHANGED <<data, columns, pitch_data, pas, events, batted_balls,
                   store, result>>
    /\ UNCHANGED batch_vars

\* the table is the content of player_<p>.parquet in data_dir
StoreFile ==
    \E p \in PlayerIds :
        /\ pc = "feed"
        /\ store' = [store EXCEPT ![p] = ParquetOf(data, columns)]
        /\ pc' = "stored"
        /\ UNCHANGED <<data, columns, pitch_data, pas, events, batted_balls,
                       features, result>>
        /\ UNCHANGED batch_vars

\* result = calculate_player_features(q, data_dir)
CalculatePlayerFeatures ==
    \E q \in PlayerIds :
        /\ pc = "stored"
        /\ result' = [player_id |-> q] @@ calculate_player_features(q, store)
        /\ pc' = "returned"
        /\ UNCHANGED <<data, columns, pitch_data, pas, events, batted_balls,
                       features, store>>
        /\ UNCHANGED batch_vars

\* what every specification does with a table once it is delivered
Use ==
    \/ Construct
    \/ Calculate
    \/ StoreFile
    \/ CalculatePlayerFeatures

Next ==
    \/ RecordPitch
    \/ DropColumn
    \/ Use

\* sample pitches, with up to MaxDropped optional columns missing
Spec == Init /\ [][Next]_vars

----------------------------------------------------------------------------
(* Feeds that vary one part of the table at a time *)

\* a ball put in play for a single
InPlay == [events |-> "single", launch_speed |-> 100, launch_angle |-> 20]

\* pitches arriving in any order of date, inning and at-bat number, each one
\* either blank or a ball put in play
RecordShuffled ==
    \E d \in 1..2, inn \in 1..2, ab \in 1..2, over \in {<<>>, InPlay} :
        Deliver(With(BlankPitch(d, inn, ab), over))

NextReduce == RecordShuffled \/ Use

SpecReduce == Init /\ [][NextReduce]_vars

\* every events value the metrics tell apart, one that they do not
\* (field_out), and the missing value
EventValues ==
    {"single", "double", "triple", "home_run", "walk", "hit_by_pitch",
     "sac_fly", "sac_bunt", "catcher_interf", "strikeout",
     "strikeout_double_play", "field_out", None}

\* one-pitch plate appearances, one after the other, of every outcome
RecordOutcome ==
    \E e \in EventValues :
        Deliver(With(BlankPitch(1, 1, Len(data) + 1), [events |-> e]))

NextOutcome == RecordOutcome \/ Use

SpecOutcome == Init /\ [][NextOutcome]_vars

\* one-pitch plate appearances with every combination of present and missing
\* expected-wOBA fields
RecordWoba ==
    \E est \in {NaN, 400}, wv \in {NaN, 900}, wd \in {NaN, 0, 1} :
        Deliver(With(BlankPitch(1, 1, Len(data) + 1),
                     [estimated_woba_using_speedangle |-> est,
                      woba_value |-> wv, woba_denom |-> wd]))

NextWoba == RecordWoba \/ Use

SpecWoba == Init /\ [][NextWoba]_vars

\* one-pitch plate appearances whose expected wOBA is missing, below zero,
\* zero, the league average or above it, with or without the wOBA fallback
\* fields
RecordExpected ==
    \E est \in {NaN, 0 - 200, 0, 320, 400}, fallback \in BOOLEAN :
        Deliver(With(BlankPitch(1, 1, Len(data) + 1),
                     [estimated_woba_using_speedangle |-> est,
                      woba_value |-> IF fallback THEN 900 ELSE NaN,
                      woba_denom |-> IF fallback THEN 1 ELSE NaN]))

NextExpected == RecordExpected \/ Use

SpecExpected == Init /\ [][NextExpected]_vars

\* what was measured of the contact of one plate appearance:
\* <<launch_speed, launch_angle, launch_speed_angle>>
ContactValues ==
    {<<NaN, NaN, NaN>>,     \* no contact
     <<NaN, NaN, 6>>,       \* a bucket without an exit velocity
     <<99, 28, 6>>,         \* a barrel by the bucket and by the fallback rule
     <<98, 26, NaN>>,       \* lower edge of the fallback rule, no bucket
     <<98, 30, 5>>,         \* upper edge of the fallback rule, bucket 5
     <<97, 28, 6>>,         \* bucket 6, too slow for the fallback rule
     <<99, 31, NaN>>,       \* too steep for the fallback rule
     <<99, NaN, NaN>>}      \* exit velocity without a launch angle

\* one-pitch plate appearances with every kind of contact
RecordContact ==
    \E m \in ContactValues :
        Deliver(With(BlankPitch(1, 1, Len(data) + 1),
                     [launch_speed |-> m[1], launch_angle |-> m[2],
                      launch_speed_angle |-> m[3]]))

\* the provider's table comes without the launch_speed_angle column
DropLaunchSpeedAngle ==
    /\ pc = "feed"
    /\ "launch_speed_angle" \in columns
    /\ columns' = columns \ {"launch_speed_angle"}
    /\ UNCHANGED <<data, pc, pitch_data, pas, events, batted_balls,
                   features, store, result>>
    /\ UNCHANGED batch_vars

NextContact == RecordContact \/ DropLaunchSpeedAngle \/ Use

SpecContact == Init /\ [][NextContact]_vars

\* where the ball of one plate appearance went: <<launch_speed, hc_x, stand>>
SprayValues ==
    {<<NaN, 110, "R">>,     \* no batted ball
     <<100, NaN, "R">>,     \* hit location missing
     <<100, NaN, None>>,    \* hit location and handedness missing
     <<100, 110, None>>,    \* handedness missing
     <<100, 99, "R">>,      \* left of center
     <<100, 99, "L">>,
     <<100, 100, "L">>,     \* lower edge of center
     <<100, 125, "R">>,     \* on the centerline
     <<100, 125, "L">>,
     <<100, 150, "R">>,     \* upper edge of center
     <<100, 151, "R">>,     \* right of center
     <<100, 151, "L">>}

\* one-pitch plate appearances hit to every part of the field by batters of
\* either hand
RecordSpray ==
    \E m \in SprayValues :
        Deliver(With(BlankPitch(1, 1, Len(data) + 1),
                     [launch_speed |-> m[1], hc_x |-> m[2], stand |-> m[3]]))

NextSpray == RecordSpray \/ Use

SpecSpray == Init /\ [][NextSpray]_vars

\* where one pitch crossed and what the batter did: <<zone, description>>
ZoneValues ==
    {<<NaN, "swinging_strike">>,        \* no zone recorded
     <<10, "foul">>,                    \* a zone code in neither set
     <<1, "called_strike">>,            \* inside, taken
     <<9, "foul">>,                     \* inside, contact
     <<5, "swinging_strike_blocked">>,  \* inside, whiff
     <<3, "hit_into_play">>,            \* inside, contact
     <<11, "ball">>,                    \* outside, taken
     <<14, "swinging_strike">>,         \* outside, whiff
     <<12, "foul_tip">>,                \* outside, contact
     <<13, None>>}                      \* outside, no description

\* pitches of every zone and description, two to a plate appearance
RecordZone ==
    \E m \in ZoneValues :
        Deliver(With(BlankPitch(1, 1, (Len(data) \div 2) + 1),
                     [zone |-> m[1], description |-> m[2]]))

NextZone == RecordZone \/ Use

SpecZone == Init /\ [][NextZone]_vars

----------------------------------------------------------------------------
(* calculate_all_players_features *)

\* a row of the timeline CSV (it has no player_name column)
TimelineRow(p, ok) ==
    [player_id |-> p, success |-> ok, debut_date |-> 1, date_reached |-> 2,
     n_pa |-> 100]

\* timeline[timeline['success'] == True]
Selected(tl) == SelectSeq(tl, LAMBDA row : row.success)

\* the timeline CSV gets one more row
AddTimelineRow ==
    \E p \in PlayerIds, ok \in BOOLEAN :
        /\ driver.pc = "idle"
        /\ Len(timeline) < MaxTimeline
        /\ timeline' = Append(timeline, TimelineRow(p, ok))
        /\ UNCHANGED <<store, driver, fetches>>
        /\ UNCHANGED calculator_vars

\* files found in data_dir: a table without rows, a table of one pitch, and a
\* file cut short while it was written
SampleFiles ==
    {ParquetOf(<<>>, OptionalColumns),
     ParquetOf(<<BarrelSingle>>, OptionalColumns),
     [exists |-> TRUE, readable |-> FALSE, rows |-> <<>>, columns |-> {}]}

\* data_dir holds a file for player p before the batch function starts
PlaceFile ==
    \E p \in PlayerIds, file \in SampleFiles :
        /\ driver.pc = "idle"
        /\ store[p] = NoFile
        /\ store' = [store EXCEPT ![p] = file]
        /\ UNCHANGED <<timeline, driver, fetches>>
        /\ UNCHANGED calculator_vars

\* timeline = pd.read_csv(...); timeline = timeline[success == True];
\* results = []
StartCalculateAll ==
    /\ driver.pc = "idle"
    /\ driver' = [Idle EXCEPT !.fn = "calculate_all_players_features",
                              !.pc = "loop",
                              !.rows = Selected(timeline)]
    /\ UNCHANGED <<store, timeline, fetches>>
    /\ UNCHANGED calculator_vars

\* one pass of `for idx, row in timeline.iterrows()`; there is no try around
\* the call, so an exception of calculate_player_features leaves the function
CalculateAllIteration ==
    /\ driver.fn = "calculate_all_players_features"
    /\ driver.pc = "loop"
    /\ driver.idx < Len(driver.rows)
    /\ LET row       == driver.rows[driver.idx + 1]
           player_id == row.player_id
           called    == calculate_player_features(player_id, store)
           info      == Dict(<< <<"player_name",  "Unknown">>,
                                <<"debut_date",   row.debut_date>>,
                                <<"date_reached", row.date_reached>>,
                                <<"n_pa",         row.n_pa>> >>)
       IN  /\ result' = [player_id |-> player_id] @@ called
           /\ driver' =
                 IF called.raised
                 THEN [driver EXCEPT !.idx = @ + 1, !.pc = "raised"]
                 ELSE IF ~called.none
                 THEN [driver EXCEPT !.idx = @ + 1,
                          !.results = Append(@, update(called.features, info))]
                 ELSE [driver EXCEPT !.idx = @ + 1,
                          !.skipped = Append(@, player_id)]
    /\ UNCHANGED <<data, columns, pc, pitch_data, pas, events, batted_balls,
                   features, store, timeline, fetches>>

\* features_df = pd.DataFrame(results); features_df.to_csv(output_path);
\* return features_df
CalculateAllSave ==
    /\ driver.fn = "calculate_all_players_features"
    /\ driver.pc = "loop"
    /\ driver.idx = Len(driver.rows)
    /\ driver' = [driver EXCEPT !.pc = "done", !.saved = TRUE]
    /\ UNCHANGED <<store, timeline, fetches>>
    /\ UNCHANGED calculator_vars

NextCalculateAll ==
    \/ AddTimelineRow
    \/ PlaceFile
    \/ StartCalculateAll
    \/ CalculateAllIteration
    \/ CalculateAllSave

SpecCalculateAll == Init /\ [][NextCalculateAll]_vars

----------------------------------------------------------------------------
(* fetch_player_statcast and fetch_all_players_from_timeline *)

\* a row of the provider's table: its game_type and the pitch it describes
ProviderRow(game_type, k) ==
    [game_type |-> game_type, pitch |-> BlankPitch(1, 1, k)]

\* what one call of statcast_batter can do: raise, return None, or return a
\* table, which has a game_type column or not
Answer(raises, none, has_game_type, rows) ==
    [raises |-> raises, none |-> none, has_game_type |-> has_game_type,
     rows |-> rows]

ProviderOutcomes ==
    {Answer(TRUE, FALSE, FALSE, <<>>),                       \* exception
     Answer(FALSE, TRUE, FALSE, <<>>),                       \* None
     Answer(FALSE, FALSE, TRUE, <<>>),                       \* no rows
     Answer(FALSE, FALSE, TRUE, <<ProviderRow("S", 1)>>),    \* spring training only
     Answer(FALSE, FALSE, TRUE, <<ProviderRow("R", 1)>>),    \* regular season
     Answer(FALSE, FALSE, TRUE,
            <<ProviderRow("S", 1), ProviderRow("R", 2)>>),   \* both
     Answer(FALSE, FALSE, FALSE, <<ProviderRow(None, 1)>>)}  \* no game_type column

\* the provider was not asked
NotAsked == Answer(FALSE, FALSE, FALSE, <<>>)

\* os.path.join(output_dir, f'player_{player_id}.parquet')
FilePath(player_id) == <<"player_", player_id, ".parquet">>

\* os.path.getsize(output_file) / (1024 * 1024), in units of one stored row
FileSizeMb(file) == Len(file.rows)

\* the record returned on a failure
Failure(player_id, error) ==
    Dict(<< <<"player_id", player_id>>, <<"success", FALSE>>,
            <<"error", error>> >>)

\* fetch_player_statcast fetching again when the file exists
fetch_player_statcast_refetching(player_id, data_dir, outcome) ==
    LET same(record) ==
            [result |-> record, data_dir |-> data_dir, contacted |-> TRUE]
        kept == IF outcome.has_game_type
                THEN SelectSeq(outcome.rows, LAMBDA r : r.game_type = "R")
                ELSE outcome.rows
        file == ParquetOf([i \in 1..Len(kept) |-> kept[i].pitch],
                          OptionalColumns)
    IN  IF outcome.raises
        THEN same(Failure(player_id, "exception"))
        ELSE IF outcome.none \/ Len(outcome.rows) = 0
        THEN same(Failure(player_id, "No data returned"))
        ELSE IF Len(kept) = 0
        THEN same(Failure(player_id, "No regular season data"))
        ELSE [result |->
                 Dict(<< <<"player_id", player_id>>, <<"success", TRUE>>,
                         <<"num_pitches", Len(kept)>>,
                         <<"file_size_mb", FileSizeMb(file)>>,
                         <<"file_path", FilePath(player_id)>> >>),
              data_dir |-> [data_dir EXCEPT ![player_id] = file],
              contacted |-> TRUE]

\* the record returned, the directory after the call, and whether
\* statcast_batter was called; `outcome` is what statcast_batter does if it is
fetch_player_statcast(player_id, data_dir, outcome) ==
    LET same(record, asked) ==
            [result |-> record, data_dir |-> data_dir, contacted |-> asked]
        kept == IF outcome.has_game_type
                THEN SelectSeq(outcome.rows, LAMBDA r : r.game_type = "R")
                ELSE outcome.rows
        file == ParquetOf([i \in 1..Len(kept) |-> kept[i].pitch],
                          OptionalColumns)
    IN  IF data_dir[player_id].exists
        THEN same(Dict(<< <<"player_id", player_id>>, <<"success", TRUE>>,
                          <<"already_exists", TRUE>>,
                          <<"file_path", FilePath(player_id)>> >>), FALSE)
        ELSE IF outcome.raises
        THEN same(Failure(player_id, "exception"), TRUE)
        ELSE IF outcome.none \/ Len(outcome.rows) = 0
        THEN same(Failure(player_id, "No data returned"), TRUE)
        ELSE IF Len(kept) = 0
        THEN same(Failure(player_id, "No regular season data"), TRUE)
        ELSE [result |->
                 Dict(<< <<"player_id", player_id>>, <<"success", TRUE>>,
                         <<"num_pitches", Len(kept)>>,
                         <<"file_size_mb", FileSizeMb(file)>>,
                         <<"file_path", FilePath(player_id)>> >>),
              data_dir |-> [data_dir EXCEPT ![player_id] = file],
              contacted |-> TRUE]

\* the entry of `fetches` for one call
Fetched(player_id, outcome, call) ==
    [player_id |-> player_id,
     contacted |-> call.contacted,
     outcome   |-> IF call.contacted THEN outcome ELSE NotAsked,
     result    |-> call.result]

\* result = fetch_player_statcast(p, start_date, end_date, output_dir)
FetchPlayerStatcast ==
    \E p \in PlayerIds, outcome \in ProviderOutcomes :
        /\ driver.pc = "idle"
        /\ Len(fetches) < MaxCalls
        /\ LET call == fetch_player_statcast(p, store, outcome)
           IN  /\ store' = call.data_dir
               /\ fetches' = Append(fetches, Fetched(p, outcome, call))
        /\ UNCHANGED <<timeline, driver>>
        /\ UNCHANGED calculator_vars

NextFetch == FetchPlayerStatcast

SpecFetch == Init /\ [][NextFetch]_vars

\* player_<p>.parquet was downloaded by an earlier run
CacheFile ==
    \E p \in PlayerIds :
        /\ driver.pc = "idle"
        /\ store[p] = NoFile
        /\ store' = [store EXCEPT ![p] = ParquetOf(<<BarrelSingle>>, OptionalColumns)]
        /\ UNCHANGED <<timeline, driver, fetches>>
        /\ UNCHANGED calculator_vars

\* timeline = pd.read_csv(...); timeline = timeline[success == True].copy();
\* results = []
StartFetchAll ==
    /\ driver.pc = "idle"
    /\ driver' = [Idle EXCEPT !.fn = "fetch_all_players_from_timeline",
                              !.pc = "loop",
                              !.rows = Selected(timeline)]
    /\ UNCHANGED <<store, timeline, fetches>>
    /\ UNCHANGED calculator_vars

\* one pass of `for idx, row in timeline.iterrows()`
FetchAllIteration ==
    \E outcome \in ProviderOutcomes :
        /\ driver.fn = "fetch_all_players_from_timeline"
        /\ driver.pc = "loop"
        /\ driver.idx < Len(driver.rows)
        /\ LET row       == driver.rows[driver.idx + 1]
               player_id == row.player_id
               call      == fetch_player_statcast(player_id, store, outcome)
               info      == Dict(<< <<"player_name",  "Unknown">>,
                                    <<"debut_date",   row.debut_date>>,
                                    <<"date_reached", row.date_reached>> >>)
           IN  /\ store' = call.data_dir
               /\ fetches' = Append(fetches, Fetched(player_id, outcome, call))
               /\ driver' = [driver EXCEPT
                                !.idx = @ + 1,
                                !.results = Append(@, update(call.result, info))]
        /\ UNCHANGED timeline
        /\ UNCHANGED calculator_vars

\* the columns of pd.DataFrame(results): every key of every record
ColumnsOf(records) == UNION {DOMAIN records[i] : i \in 1..Len(records)}

\* results_df = pd.DataFrame(results), the summary, the fetch log.  Reading a
\* column that no record has raises KeyError: 'success' when there is no
\* record, 'file_size_mb' when no record is of a newly written file
FetchAllSummary ==
    /\ driver.fn = "fetch_all_players_from_timeline"
    /\ driver.pc = "loop"
    /\ driver.idx = Len(driver.rows)
    /\ LET results_df == driver.results
           successful ==
               IF "success" \in ColumnsOf(results_df)
               THEN Count(results_df, LAMBDA r : r["success"])
               ELSE 0
           raised ==
               \/ "success" \notin ColumnsOf(results_df)
               \/ /\ successful > 0
                  /\ \/ "file_size_mb" \notin ColumnsOf(results_df)
                     \/ "num_pitches" \notin ColumnsOf(results_df)
       IN  driver' = IF raised THEN [driver EXCEPT !.pc = "raised"]
                     ELSE [driver EXCEPT !.pc = "done", !.saved = TRUE]
    /\ UNCHANGED <<store, timeline, fetches>>
    /\ UNCHANGED calculator_vars

NextFetchAll ==
    \/ AddTimelineRow
    \/ CacheFile
    \/ StartFetchAll
    \/ FetchAllIteration
    \/ FetchAllSummary

SpecFetchAll == Init /\ [][NextFetchAll]_vars

----------------------------------------------------------------------------
(* Properties *)

BasicNames ==
    {"AVG", "OBP", "SLG", "OPS", "ISO", "BB%", "K%", "BABIP", "HR/FB", "LD%",
     "GB%", "FB%", "xwOBA", "xwRC+"}

AdvancedNames ==
    {"Hard%", "EV", "maxEV", "Barrel%", "LA", "Sweet Spot%", "O-Swing%",
     "Z-Swing%", "SwStr%", "O-Contact%", "Z-Contact%", "Pull%", "Cent%",
     "Oppo%"}

MetricNames == BasicNames \cup AdvancedNames

MetadataNames == {"player_id", "total_pitches", "total_pas"}

\* C1: whatever the rows and whichever optional columns the table carries,
\* the dict of calculate_all_features has exactly the 28 metric keys (14
\* basic, 14 advanced, none shared), and the dict of calculate_player_features
\* has exactly these and player_id, total_pitches, total_pas.
C1_ExactKeySet ==
    /\ pc = "calculated" =>
          /\ DOMAIN features = MetricNames
          /\ Cardinality(DOMAIN features) = 28
          /\ Cardinality(DOMAIN features \cap BasicNames) = 14
          /\ Cardinality(DOMAIN features \cap AdvancedNames) = 14
    /\ (pc = "returned" /\ ~result.none) =>
          /\ DOMAIN result.features = MetricNames \cup MetadataNames
          /\ Cardinality(DOMAIN result.features) = 31

\* a table with no rows and a missing optional column still gives 28 keys
C1_Witness ==
    /\ pc = "calculated"
    /\ Len(data) = 0
    /\ columns # OptionalColumns
    /\ Cardinality(DOMAIN features) = 28

\* C2: no metric of the output is undefined (nan or infinite): every metric
\* guards its denominator, SwStr% is 0 on a table without pitches and LA is a
\* number when no batted ball has a launch_angle.
C2_NoUndefinedMetric ==
    pc = "calculated" => \A k \in DOMAIN features : isfinite(features[k])

\* the fraction x equals n/d (d > 0)
IsRatio(x, n, d) == x[2] > 0 /\ x[1] * d = n * x[2]

\* the rows of a table (as indices) that satisfy Test
Rows(rows, Test(_)) == {i \in 1..Len(rows) : Test(rows[i])}

RECURSIVE SumWhereTo(_, _, _, _)
\* the sum of column c over those of the first n rows that satisfy Test
SumWhereTo(rows, c, Test(_), n) ==
    IF n = 0 THEN 0
    ELSE SumWhereTo(rows, c, Test, n - 1) + (IF Test(rows[n]) THEN rows[n][c] ELSE 0)

\* the sum of column c over the rows where it is present
PresentSum(rows, c) ==
    SumWhereTo(rows, c, LAMBDA r : r[c] # NaN, Len(rows))

PresentCount(rows, c) == Cardinality(Rows(rows, LAMBDA r : r[c] # NaN))

\* the metrics that read an optional column
Reads(c) ==
    CASE c = "bb_type"            -> {"HR/FB", "LD%", "GB%", "FB%"}
      [] c = "zone"               -> {"O-Swing%", "Z-Swing%", "O-Contact%", "Z-Contact%"}
      [] c = "hc_x"               -> {"Pull%", "Cent%", "Oppo%"}
      [] c = "stand"              -> {"Pull%", "Oppo%"}
      [] c = "launch_speed_angle" -> {"Barrel%"}
      [] OTHER                    -> {"xwOBA", "xwRC+"}

\* the optional columns C3 names
NamedOptionalColumns ==
    {"bb_type", "zone", "hc_x", "stand", "launch_speed_angle",
     "estimated_woba_using_speedangle", "woba_value", "woba_denom"}

\* the barrels of the fallback rule: 98+ mph and 26 to 30 degrees
FallbackBarrels ==
    Rows(pas, LAMBDA r : /\ r.launch_speed # NaN /\ r.launch_speed >= 98
                         /\ r.launch_angle # NaN
                         /\ r.launch_angle >= 26 /\ r.launch_angle <= 30)

\* xwOBA (in thousandths) is sum(woba_value)/sum(woba_denom), or 0
WobaRatioOrZero(x) ==
    IF /\ {"woba_value", "woba_denom"} \subseteq columns
       /\ PresentSum(pas, "woba_denom") > 0
    THEN IsRatio(x, PresentSum(pas, "woba_value"),
                 1000 * PresentSum(pas, "woba_denom"))
    ELSE x = <<0, 1>>

\* xwOBA (in thousandths) is the mean of the expected wOBA, or 0
EstimatedMeanOrZero(x) ==
    IF /\ "estimated_woba_using_speedangle" \in columns
       /\ PresentCount(pas, "estimated_woba_using_speedangle") > 0
    THEN IsRatio(x, PresentSum(pas, "estimated_woba_using_speedangle"),
                 1000 * PresentCount(pas, "estimated_woba_using_speedangle"))
    ELSE x = <<0, 1>>

\* the documented value of the metrics reading column c when c is missing
DocumentedDefault(c) ==
    CASE c \in {"bb_type", "zone", "hc_x", "stand"} ->
            \A k \in Reads(c) : features[k] = <<0, 1>>
      [] c = "launch_speed_angle" ->
            IF Len(pas) = 0 THEN features["Barrel%"] = <<0, 1>>
            ELSE IsRatio(features["Barrel%"], Cardinality(FallbackBarrels), Len(pas))
      [] c = "estimated_woba_using_speedangle" ->
            /\ WobaRatioOrZero(features["xwOBA"])
            /\ features["xwOBA"] = <<0, 1>> => features["xwRC+"] = <<100, 1>>
      [] OTHER ->
            /\ EstimatedMeanOrZero(features["xwOBA"])
            /\ features["xwOBA"] = <<0, 1>> => features["xwRC+"] = <<100, 1>>

\* the features of the same table with column c present
FeaturesWith(c) == calculate_all_features(Self, columns \cup {c})

\* C3: when one of the named optional columns is missing, every metric that
\* reads it has its documented default (0 for the bb_type, zone, hc_x and
\* stand metrics, the fallback rule for Barrel%, the remaining level of the
\* xwOBA rule), and every metric that does not read it has the value it has
\* on the same table with the column present.
C3_MissingColumn ==
    pc = "calculated" =>
        \A c \in NamedOptionalColumns \ columns :
            LET present == FeaturesWith(c)
            IN  /\ DocumentedDefault(c)
                /\ \A k \in MetricNames \ Reads(c) : features[k] = present[k]

\* bb_type is missing while a batted ball is a line drive and a home run was
\* hit: LD% and HR/FB are 0, and Hard% is what it is with bb_type present
C3_Witness ==
    /\ pc = "calculated"
    /\ "bb_type" \notin columns
    /\ \E i \in 1..Len(batted_balls) : batted_balls[i].bb_type = "line_drive"
    /\ \E i \in 1..Len(events) : events[i] = "home_run"
    /\ features["LD%"] = <<0, 1>>
    /\ features["HR/FB"] = <<0, 1>>
    /\ FeaturesWith("bb_type")["LD%"] # <<0, 1>>
    /\ features["Hard%"] = <<1, 1>>

\* the (game_date, at_bat_number) pairs of a table
Pairs(rows) ==
    {<<rows[i].game_date, rows[i].at_bat_number>> : i \in 1..Len(rows)}

\* the position in the sorted table of the terminal pitch of a pair: the last
\* row of the pair in sort order
Terminal(pair) ==
    CHOOSE i \in 1..Len(pitch_data) :
        /\ <<pitch_data[i].game_date, pitch_data[i].at_bat_number>> = pair
        /\ \A j \in (i + 1)..Len(pitch_data) :
              <<pitch_data[j].game_date, pitch_data[j].at_bat_number>> # pair

\* C4: every PlateAppearance row equals, field by field, the terminal pitch
\* of its (game_date, at_bat_number) group, also where the terminal pitch has
\* no events, launch_speed or launch_angle value and an earlier pitch has one.
C4_TerminalPitchWins ==
    pc \in {"constructed", "calculated"} =>
        \A g \in 1..Len(pas) :
            pas[g] = pitch_data[Terminal(<<pas[g].game_date, pas[g].at_bat_number>>)]

\* C5: the reducer yields one PlateAppearance row per distinct
\* (game_date, at_bat_number) pair of the table and no other row, in
\* ascending order of game_date (no row for an empty table), and total_pas of
\* calculate_player_features is the number of pairs.
C5_OneRowPerPair ==
    /\ pc \in {"constructed", "calculated"} =>
          /\ Len(pas) = Cardinality(Pairs(data))
          /\ Pairs(pas) = Pairs(data)
          /\ \A g \in 1..(Len(pas) - 1) : pas[g].game_date <= pas[g + 1].game_date
    /\ (pc = "returned" /\ ~result.none) =>
          result.features["total_pas"] =
              Cardinality(Pairs(store[result.player_id].rows))

\* three pitches of two appearances, the later date arriving first
C5_Witness ==
    /\ pc = "constructed"
    /\ Len(data) = 3
    /\ data[1].game_date > data[3].game_date
    /\ data[1].at_bat_number = data[3].at_bat_number
    /\ Len(pas) = 2
    /\ pas[1].game_date < pas[2].game_date

\* C6: calculate_player_features returns None exactly when the player's file
\* is absent or holds a table without rows, with nothing filled in; for every
\* table with rows it returns the full feature vector (28 metrics and the
\* metadata of this player and this table).
C6_NoneIffNoData ==
    pc = "returned" =>
        LET file == store[result.player_id]
        IN  /\ result.none <=> (~file.exists \/ Len(file.rows) = 0)
            /\ result.none => DOMAIN result.features = {}
            /\ ~result.none =>
                  /\ DOMAIN result.features = MetricNames \cup MetadataNames
                  /\ result.features["player_id"] = result.player_id
                  /\ result.features["total_pitches"] = Len(file.rows)

\* the player's file exists and holds no rows: None is returned
C6_Witness ==
    /\ pc = "returned"
    /\ store[result.player_id].exists
    /\ Len(store[result.player_id].rows) = 0
    /\ result.none

\* the appearances (rows of pas) that carry an event
WithEvent == Rows(pas, LAMBDA r : r.events # None)

\* the number of appearances whose event is in the set es
N(es) == Cardinality(Rows(pas, LAMBDA r : r.events \in es))

HIT_EVENTS == {"single", "double", "triple", "home_run"}

NON_AB_EVENTS == {"walk", "hit_by_pitch", "sac_fly", "sac_bunt", "catcher_interf"}

STRIKEOUT_EVENTS == {"strikeout", "strikeout_double_play"}

BABIP_EXCLUDED_EVENTS == NON_AB_EVENTS \cup STRIKEOUT_EVENTS \cup {"home_run"}

AtBats == Cardinality(WithEvent) - N(NON_AB_EVENTS)

TotalBases ==
    N({"single"}) + 2 * N({"double"}) + 3 * N({"triple"}) + 4 * N({"home_run"})

BallsInPlay == Cardinality(WithEvent) - N(BABIP_EXCLUDED_EVENTS)

\* the metric x is n/d, and 0 when d is 0
RatioOrZero(x, n, d) == IF d > 0 THEN IsRatio(x, n, d) ELSE x = <<0, 1>>

\* C7: the outcome-rate metrics are the reference count ratios over the
\* appearances with an event: AVG = hits/at-bats, SLG = total bases/at-bats,
\* OBP = (hits + walks + HBP)/appearances, BB% = walks/appearances,
\* K% = strikeouts/appearances, BABIP = non-HR hits/balls in play; single,
\* walk, strikeout give AVG 1/2, OBP 2/3, K% 1/3, BB% 1/3, BABIP 1/1.
C7_OutcomeRates ==
    pc = "calculated" =>
        /\ RatioOrZero(features["AVG"], N(HIT_EVENTS), AtBats)
        /\ RatioOrZero(features["SLG"], TotalBases, AtBats)
        /\ RatioOrZero(features["OBP"],
                       N(HIT_EVENTS) + N({"walk"}) + N({"hit_by_pitch"}),
                       Cardinality(WithEvent))
        /\ RatioOrZero(features["BB%"], N({"walk"}), Cardinality(WithEvent))
        /\ RatioOrZero(features["K%"], N(STRIKEOUT_EVENTS), Cardinality(WithEvent))
        /\ RatioOrZero(features["BABIP"], N(HIT_EVENTS \ {"home_run"}), BallsInPlay)
        /\ Col(data, "events") = <<"single", "walk", "strikeout">> =>
              /\ features["AVG"] = <<1, 2>>
              /\ features["OBP"] = <<2, 3>>
              /\ features["K%"] = <<1, 3>>
              /\ features["BB%"] = <<1, 3>>
              /\ features["BABIP"] = <<1, 1>>

\* the appearances single, walk, strikeout have been calculated
C7_Witness ==
    /\ pc = "calculated"
    /\ Col(data, "events") = <<"single", "walk", "strikeout">>
    /\ features["AVG"] = <<1, 2>>
    /\ features["BABIP"] = <<1, 1>>

\* C8: every percentage-style metric lies in [0, 1].
C8_RatesBounded ==
    pc = "calculated" =>
        \A k \in {"AVG", "OBP", "BB%", "K%", "BABIP", "Hard%", "Barrel%",
                  "Sweet Spot%", "LD%", "GB%", "FB%", "O-Swing%", "Z-Swing%",
                  "SwStr%", "O-Contact%", "Z-Contact%", "Pull%", "Cent%",
                  "Oppo%"} :
            RatLe(<<0, 1>>, features[k]) /\ RatLe(features[k], <<1, 1>>)

\* C9: in the returned dict OPS is OBP + SLG and ISO is SLG - AVG, exactly,
\* also where at-bats or appearances are 0 and the components are 0.
C9_OpsIsoIdentities ==
    pc = "calculated" =>
        LET avg == features["AVG"]
            obp == features["OBP"]
            slg == features["SLG"]
        IN  /\ IsRatio(features["OPS"],
                       obp[1] * slg[2] + slg[1] * obp[2], obp[2] * slg[2])
            /\ IsRatio(features["ISO"],
                       slg[1] * avg[2] - avg[1] * slg[2], slg[2] * avg[2])

\* appearances with events but no at-bat (walks only): SLG and AVG take the
\* default 0 while OBP is 1, so OPS is 1 and ISO is 0
C9_Witness ==
    /\ pc = "calculated"
    /\ Len(events) = 2
    /\ AtBats = 0
    /\ features["OBP"] = <<1, 1>>
    /\ features["SLG"] = <<0, 1>>
    /\ features["OPS"] = <<1, 1>>
    /\ features["ISO"] = <<0, 1>>

\* the sum of column c over the appearances that have both woba_value and
\* woba_denom
PairedSum(c) ==
    SumWhereTo(pas, c, LAMBDA r : r.woba_value # NaN /\ r.woba_denom # NaN,
               Len(pas))

\* C10 as claimed: xwOBA is the mean of the expected wOBA where present; with
\* none present it is sum(woba_value)/sum(woba_denom) over the appearances
\* that have both fields; otherwise 0.
C10_PairedFallback ==
    pc = "calculated" =>
        IF PresentCount(pas, "estimated_woba_using_speedangle") > 0
        THEN EstimatedMeanOrZero(features["xwOBA"])
        ELSE IF PairedSum("woba_denom") > 0
             THEN IsRatio(features["xwOBA"], PairedSum("woba_value"),
                          1000 * PairedSum("woba_denom"))
             ELSE features["xwOBA"] = <<0, 1>>

\* C10 (amended): xwOBA is the mean of the expected wOBA over the appearances
\* where it is present; with none present it is sum(woba_value) over the
\* appearances that have a woba_value divided by sum(woba_denom) over the
\* appearances that have a woba_denom, each sum on its own, when that
\* denominator is positive; otherwise 0.
C10_IndependentSums ==
    pc = "calculated" =>
        IF /\ "estimated_woba_using_speedangle" \in columns
           /\ PresentCount(pas, "estimated_woba_using_speedangle") > 0
        THEN EstimatedMeanOrZero(features["xwOBA"])
        ELSE WobaRatioOrZero(features["xwOBA"])

\* no expected wOBA; one appearance has only a woba_value (0.900), another
\* only a woba_denom (1): xwOBA is 0.9
C10_Witness ==
    /\ pc = "calculated"
    /\ PresentCount(pas, "estimated_woba_using_speedangle") = 0
    /\ \E i \in 1..Len(pas) : pas[i].woba_value = 900 /\ pas[i].woba_denom = NaN
    /\ \E i \in 1..Len(pas) : pas[i].woba_value = NaN /\ pas[i].woba_denom = 1
    /\ PairedSum("woba_denom") = 0
    /\ features["xwOBA"] = <<9, 10>>

\* C11: xwRC+ is 100 when the xwOBA of the dict is 0, and otherwise
\* ((xwOBA - 0.320) / 1.25) / 0.320 * 100 + 100, which is
\* (1000 xwOBA - 320) / 4 + 100, or 0 when that is below 0; it is never
\* negative and is computed from the value stored under the key xwOBA.
C11_XwrcPlusFormula ==
    pc = "calculated" =>
        LET x == features["xwOBA"]
            w == features["xwRC+"]
            \* numerator of the formula's value over the denominator 4 * x[2]
            value == (1000 * x[1] - 320 * x[2]) + 400 * x[2]
        IN  /\ isfinite(x)
            /\ isfinite(w)
            /\ w[1] >= 0
            /\ x[1] = 0 => w = <<100, 1>>
            /\ (x[1] # 0 /\ value > 0) => IsRatio(w, value, 4 * x[2])
            /\ (x[1] # 0 /\ value <= 0) => w = <<0, 1>>

\* an expected wOBA of -0.200 puts the formula at -30, and xwRC+ is 0
C11_Witness ==
    /\ pc = "calculated"
    /\ Len(pas) = 1
    /\ pas[1].estimated_woba_using_speedangle = 0 - 200
    /\ features["xwOBA"] = <<0 - 1, 5>>
    /\ features["xwRC+"] = <<0, 1>>

\* the appearances whose launch_speed_angle bucket is 6
BucketBarrels == Rows(pas, LAMBDA r : r.launch_speed_angle = 6)

\* the batted balls (appearances with a launch_speed) whose bucket is 6
BattedBucketBarrels ==
    Rows(pas, LAMBDA r : r.launch_speed # NaN /\ r.launch_speed_angle = 6)

\* Barrel% is `barrels` over the number of appearances, and 0 without any
BarrelRateIs(barrels) ==
    IF Len(pas) = 0 THEN features["Barrel%"] = <<0, 1>>
    ELSE IsRatio(features["Barrel%"], barrels, Len(pas))

\* C12 as claimed: Barrel% divides by the number of appearances and is 0
\* without any; with the launch_speed_angle column its numerator is the
\* number of appearances with launch_speed_angle = 6, without the column the
\* number of batted balls with launch_speed >= 98 and 26 <= launch_angle <= 30.
C12_BarrelsOverAppearances ==
    pc = "calculated" =>
        IF "launch_speed_angle" \in columns
        THEN BarrelRateIs(Cardinality(BucketBarrels))
        ELSE BarrelRateIs(Cardinality(FallbackBarrels))

\* C12 (amended): Barrel% divides by the number of appearances and is 0
\* without any; with the launch_speed_angle column its numerator is the
\* number of batted balls (appearances with a launch_speed) whose
\* launch_speed_angle is 6, without the column the number of batted balls
\* with launch_speed >= 98 and 26 <= launch_angle <= 30, both bounds
\* inclusive: a single 99 mph / 28 degree batted ball gives Barrel% 1.
C12_BarrelsOverBattedBalls ==
    pc = "calculated" =>
        /\ IF "launch_speed_angle" \in columns
           THEN BarrelRateIs(Cardinality(BattedBucketBarrels))
           ELSE BarrelRateIs(Cardinality(FallbackBarrels))
        /\ ( /\ "launch_speed_angle" \notin columns
             /\ Len(pas) = 1
             /\ pas[1].launch_speed = 99
             /\ pas[1].launch_angle = 28 ) => features["Barrel%"] = <<1, 1>>

\* with the column: one appearance has bucket 6 and no exit velocity, another
\* is a batted ball of bucket 6; one barrel in two appearances
C12_Witness ==
    /\ pc = "calculated"
    /\ "launch_speed_angle" \in columns
    /\ Len(pas) = 2
    /\ pas[1].launch_speed = NaN /\ pas[1].launch_speed_angle = 6
    /\ pas[2].launch_speed = 99 /\ pas[2].launch_speed_angle = 6
    /\ features["Barrel%"] = <<1, 2>>

\* the batted balls: the appearances with a launch_speed
BattedBalls == Rows(pas, LAMBDA r : r.launch_speed # NaN)

\* the batted balls with both a hit location and a handedness
Classified == {i \in BattedBalls : pas[i].hc_x # NaN /\ pas[i].stand # None}

Pulled ==
    {i \in Classified : \/ pas[i].stand = "R" /\ pas[i].hc_x < 125
                        \/ pas[i].stand = "L" /\ pas[i].hc_x > 125}

Opposite ==
    {i \in Classified : \/ pas[i].stand = "R" /\ pas[i].hc_x > 125
                        \/ pas[i].stand = "L" /\ pas[i].hc_x < 125}

Centered ==
    {i \in BattedBalls :
        pas[i].hc_x # NaN /\ pas[i].hc_x >= 100 /\ pas[i].hc_x <= 150}

\* the caller's table with the handedness of every row erased
WithoutStand == [i \in 1..Len(data) |-> With(data[i], [stand |-> None])]

\* C13: Pull%, Cent% and Oppo% divide by the number of batted balls (0 when
\* there is none); a batted ball is pulled iff it has hc_x and stand and
\* (stand = R and hc_x < 125) or (stand = L and hc_x > 125), opposite iff the
\* mirrored condition holds, centered iff 100 <= hc_x <= 150; a batted ball
\* without hc_x or stand stays in the denominator; Cent% is what it is on the
\* same table with every stand erased; no batted ball is both pulled and
\* opposite, so Pull% + Oppo% <= 1.
C13_SprayDirection ==
    (pc = "calculated" /\ {"hc_x", "stand"} \subseteq columns) =>
        /\ RatioOrZero(features["Pull%"], Cardinality(Pulled),
                       Cardinality(BattedBalls))
        /\ RatioOrZero(features["Oppo%"], Cardinality(Opposite),
                       Cardinality(BattedBalls))
        /\ RatioOrZero(features["Cent%"], Cardinality(Centered),
                       Cardinality(BattedBalls))
        /\ features["Cent%"] = _center_rate(Calculator(WithoutStand), columns)
        /\ Pulled \cap Opposite = {}
        /\ RatLe(RatAdd(features["Pull%"], features["Oppo%"]), <<1, 1>>)

\* two batted balls, one pulled by a right-handed batter and one near the
\* middle whose handedness is missing: Pull% is 1/2, Oppo% 0, Cent% 1/2
C13_Witness ==
    /\ pc = "calculated"
    /\ Len(batted_balls) = 2
    /\ \E i \in 1..2 : batted_balls[i].stand = "R" /\ batted_balls[i].hc_x = 99
    /\ \E i \in 1..2 : batted_balls[i].stand = None /\ batted_balls[i].hc_x = 110
    /\ features["Pull%"] = <<1, 2>>
    /\ features["Oppo%"] = <<0, 1>>
    /\ features["Cent%"] = <<1, 2>>

OUTSIDE_ZONE == {11, 12, 13, 14}

INSIDE_ZONE == 1..9

SWING_DESCRIPTIONS ==
    {"foul", "hit_into_play", "swinging_strike", "swinging_strike_blocked",
     "foul_tip"}

CONTACT_DESCRIPTIONS == {"foul", "hit_into_play", "foul_tip"}

\* the pitches of the caller's table that crossed a zone of the set zs
PitchesIn(zs) == Rows(data, LAMBDA r : r.zone \in zs)

\* of these, the pitches whose description is in ds
Described(pitches, ds) == {i \in pitches : data[i].description \in ds}

\* C14: the zone-discipline metrics are counted over all pitches of the
\* table, non-terminal ones included: O-Swing% = swings at zone 11..14 pitches
\* over zone 11..14 pitches, Z-Swing% the same for zones 1..9, O-Contact% and
\* Z-Contact% = contact among those swings over those swings (each 0 when its
\* denominator is 0), SwStr% = swinging_strike or swinging_strike_blocked
\* pitches over all pitches; a pitch without zone, or of zone 10, is in
\* neither denominator.
C14_ZoneDisciplineOverPitches ==
    (pc = "calculated" /\ {"zone", "description"} \subseteq columns) =>
        LET outside   == PitchesIn(OUTSIDE_ZONE)
            inside    == PitchesIn(INSIDE_ZONE)
            outSwings == Described(outside, SWING_DESCRIPTIONS)
            inSwings  == Described(inside, SWING_DESCRIPTIONS)
            whiffs    == Described(1..Len(data),
                             {"swinging_strike", "swinging_strike_blocked"})
        IN  /\ RatioOrZero(features["O-Swing%"], Cardinality(outSwings),
                           Cardinality(outside))
            /\ RatioOrZero(features["Z-Swing%"], Cardinality(inSwings),
                           Cardinality(inside))
            /\ RatioOrZero(features["O-Contact%"],
                           Cardinality(Described(outSwings, CONTACT_DESCRIPTIONS)),
                           Cardinality(outSwings))
            /\ RatioOrZero(features["Z-Contact%"],
                           Cardinality(Described(inSwings, CONTACT_DESCRIPTIONS)),
                           Cardinality(inSwings))
            /\ Len(data) > 0 =>
                  IsRatio(features["SwStr%"], Cardinality(whiffs), Len(data))
            /\ \A i \in 1..Len(data) :
                  data[i].zone \in {NaN, 10} => i \notin outside \cup inside

\* one appearance of two pitches: a whiff outside the zone, then a called
\* strike inside; the whiff is not the terminal pitch and is counted
C14_Witness ==
    /\ pc = "calculated"
    /\ Len(data) = 2
    /\ Len(pas) = 1
    /\ data[1].zone = 14 /\ data[1].description = "swinging_strike"
    /\ data[2].zone = 1 /\ data[2].description = "called_strike"
    /\ features["O-Swing%"] = <<1, 1>>
    /\ features["Z-Swing%"] = <<0, 1>>
    /\ features["SwStr%"] = <<1, 2>>

\* the metrics of a dict, without the metadata keys
MetricsOf(d) == [k \in DOMAIN d \cap MetricNames |-> d[k]]

GroupOrderKeeping ==
    {f \in [1..Len(data) -> 1..Len(data)] :
        /\ \A a, b \in 1..Len(data) : a # b => f[a] # f[b]
        /\ \A a, b \in 1..Len(data) :
              (a < b /\ GroupKey(data[f[a]]) = GroupKey(data[f[b]])) => f[a] < f[b]}

\* the caller's table in the arrival order f
Arriving(f) == [k \in 1..Len(data) |-> data[f[k]]]

\* the positions in data of the pitches of the group of PlateAppearance row g
GroupOf(g) == {i \in 1..Len(data) : GroupKey(data[i]) = GroupKey(pas[g])}

\* the pitches of the group all have the same sort key
TiedGroup(g) == \A i, j \in GroupOf(g) : data[i].inning = data[j].inning

\* the position in data of the pitch of the group that arrived last
LastArrived(g) == CHOOSE i \in GroupOf(g) : \A j \in GroupOf(g) : j <= i

\* the PlateAppearance table does not depend on the arrival order of the rows
\* as long as the order inside every group is kept
OrderIndependent ==
    pc \in {"constructed", "calculated"} =>
        \A f \in GroupOrderKeeping : Calculator(Arriving(f)).pas = pas

\* in a tied group every field of the PlateAppearance row is the last value
\* present in arrival order
TiesKeepLastPresent ==
    pc \in {"constructed", "calculated"} =>
        \A g \in 1..Len(pas) :
            TiedGroup(g) =>
                \A c \in AllColumns :
                    LET present == {i \in GroupOf(g) : data[i][c] # NullOf(c)}
                    IN  IF present = {} THEN pas[g][c] = NullOf(c)
                        ELSE pas[g][c] =
                                 data[CHOOSE i \in present :
                                          \A j \in present : j <= i][c]

\* C16: the reducer sorts stably by (game_date, inning, at_bat_number) before
\* grouping: the PlateAppearance table is the same for every arrival order
\* that keeps the relative order of the pitches inside each group, and in a
\* group whose pitches tie on the sort key the row kept is the pitch that
\* arrived last.
C16_StableSortKeepsLastArrival ==
    /\ OrderIndependent
    /\ pc \in {"constructed", "calculated"} =>
          \A g \in 1..Len(pas) :
              TiedGroup(g) => pas[g] = data[LastArrived(g)]

\* the rows of the filtered timeline whose player has features: a file that
\* can be read and holds at least one row
WithFeatures(rows) ==
    SelectSeq(rows, LAMBDA row : /\ store[row.player_id].exists
                                 /\ store[row.player_id].readable
                                 /\ Len(store[row.player_id].rows) > 0)

\* the rows of the filtered timeline whose player has no file or an empty one
WithoutData(rows) ==
    SelectSeq(rows, LAMBDA row : \/ ~store[row.player_id].exists
                                 \/ /\ store[row.player_id].readable
                                    /\ Len(store[row.player_id].rows) = 0)

\* the player_id column of a table
Ids(rows) == [i \in 1..Len(rows) |-> rows[i]["player_id"]]

\* the loop of calculate_all_players_features goes through the rows with
\* success == True once each, in timeline order, adding one output row per
\* player with features and one diagnostic per player without data
VisitsInOrder ==
    driver.fn = "calculate_all_players_features" =>
        LET visited == SubSeq(driver.rows, 1, driver.idx)
        IN  /\ driver.rows = Selected(timeline)
            /\ driver.idx <= Len(driver.rows)
            /\ Ids(driver.results) = Ids(WithFeatures(visited))
            /\ driver.skipped = Ids(WithoutData(visited))
            /\ driver.pc = "done" =>
                  driver.saved /\ driver.idx = Len(driver.rows)

\* C17: calculate_all_players_features visits every timeline row with
\* success == True once, in timeline order, and calls the core once per row;
\* a player without data is skipped with a diagnostic and the later players
\* are still processed; no exception of one player leaves the loop; the
\* output table has one row per player with features, in timeline order.
C17_EveryPlayerProcessed ==
    /\ VisitsInOrder
    /\ driver.fn = "calculate_all_players_features" => driver.pc # "raised"

\* the calls for player p that asked the provider, as positions in fetches
Asked(p) ==
    {i \in 1..Len(fetches) : fetches[i].player_id = p /\ fetches[i].contacted}

\* the provider's answer holds a row of game_type 'R'
HasRegularRow(outcome) ==
    \E k \in 1..Len(outcome.rows) : outcome.rows[k].game_type = "R"

\* the provider's answer holds a row that the filter keeps: a row of
\* game_type 'R', or any row of a table without a game_type column
HasKeptRow(outcome) ==
    \/ HasRegularRow(outcome)
    \/ ~outcome.has_game_type /\ Len(outcome.rows) > 0

\* the call that ended with this step
LastFetch == fetches'[Len(fetches')]

\* a call for a player whose file exists does not ask the provider, leaves
\* every file as it is and returns success with already_exists
CachedIsFinal ==
    [][(Len(fetches') = Len(fetches) + 1 /\ store[LastFetch.player_id].exists) =>
          /\ ~LastFetch.contacted
          /\ store' = store
          /\ LastFetch.result["success"]
          /\ "already_exists" \in DOMAIN LastFetch.result
          /\ LastFetch.result["already_exists"]]_vars

\* a call the provider fails (exception, None, no rows, no row kept) returns
\* success False, and every call returning success False leaves the files as
\* they are
FailureKeepsFiles ==
    [][Len(fetches') = Len(fetches) + 1 =>
          /\ (LastFetch.contacted /\ ~HasKeptRow(LastFetch.outcome)) =>
                ~LastFetch.result["success"]
          /\ ~LastFetch.result["success"] =>
                (store' = store /\ "error" \in DOMAIN LastFetch.result)]_vars

\* C18 as claimed: a player's cache file exists iff some earlier call for the
\* player received a row of game_type 'R'; once it exists no call for the
\* player asks the provider or rewrites the file, and each returns success
\* with already_exists; a failing call returns success False and leaves the
\* files as they are.
C18_FileIffRegularRow ==
    /\ [](\A p \in PlayerIds :
             store[p].exists <=>
                 \E i \in Asked(p) : HasRegularRow(fetches[i].outcome))
    /\ CachedIsFinal
    /\ FailureKeepsFiles

\* C18 (amended): a player's cache file exists iff some earlier call for the
\* player received a row that the filter keeps (a row of game_type 'R', or
\* any row when the provider's table has no game_type column); once it
\* exists no call for the player asks the provider or rewrites the file, and
\* each returns success with already_exists; a failing call returns success
\* False and leaves the files as they are.
C18_FileIffKeptRow ==
    /\ [](\A p \in PlayerIds :
             store[p].exists <=>
                 \E i \in Asked(p) : HasKeptRow(fetches[i].outcome))
    /\ CachedIsFinal
    /\ FailureKeepsFiles

\* a failed call, then a call that received a table without a game_type
\* column and wrote the file, then a call answered from the file
C18_Witness ==
    /\ Len(fetches) = 3
    /\ \A i \in 1..3 : fetches[i].player_id = 1
    /\ fetches[1].contacted /\ fetches[1].outcome.raises
    /\ ~fetches[1].result["success"]
    /\ fetches[2].contacted /\ ~fetches[2].outcome.has_game_type
    /\ fetches[2].result["success"]
    /\ ~fetches[3].contacted
    /\ fetches[3].result["already_exists"]
    /\ store[1].exists
    /\ ~store[2].exists

\* the loop of fetch_all_players_from_timeline has made one result record
\* per visited row with success == True, in timeline order
OneRecordPerRow ==
    driver.fn = "fetch_all_players_from_timeline" =>
        /\ driver.rows = Selected(timeline)
        /\ driver.idx <= Len(driver.rows)
        /\ Ids(driver.results) = Ids(SubSeq(driver.rows, 1, driver.idx))
        /\ driver.pc = "done" =>
              driver.saved /\ driver.idx = Len(driver.rows)

\* C19: fetch_all_players_from_timeline runs to completion for every mix of
\* per-player outcomes: it makes one result record per timeline row with
\* success == True, in timeline order, and its summary step ends with the
\* fetch log saved, never with an exception, also when every successful
\* player was already cached and when every player failed.
C19_RunsToCompletion ==
    /\ OneRecordPerRow
    /\ driver.fn = "fetch_all_players_from_timeline" => driver.pc # "raised"

====
